---------------------------- MODULE Spec2Model ----------------------------
(* A model of the coffee shop scraping pipeline: the Web Fetcher            *)
(* (web.py), the Search Client (google_maps.py), the Contact Extractor      *)
(* (extractors.py) and the Pipeline Orchestrator (pipeline.py).             *)
(* Time is counted in tenths of a second: 3.0 s is 30, 1.5 s is 15.         *)
EXTENDS Integers, Sequences, FiniteSets, TLC

Max(a, b) == IF a >= b THEN a ELSE b

Range(s) == {s[i] : i \in 1..Len(s)}

\* Python's None, for the fields that hold strings.
None == "<None>"

\* The value of a fetch that returned None (a page is a record, see Pages).
NoneHtml == [absent |-> TRUE]

(***************************************************************************)
(* Bounds of the model.                                                    *)
(***************************************************************************)
MaxRetriesBound == 3
MaxResultsBound == 1
MaxCities == 2
MaxPageLen == 2
MaxEntries == 2
MaxBucketLen == 2
MaxNodeLen == 2
MaxNodes == 2

BoundedSeq(S, n) == UNION {[1..k -> S] : k \in 0..n}

(***************************************************************************)
(* Strings.  Lower is str.lower() and StrRank is the order sorted() gives  *)
(* (code point order) on the strings the model uses.                       *)
(***************************************************************************)
EmailTokens == {"A@X.com", "a@x.com", "b@x.com"}

Lower(s) ==
  CASE s = "A@X.com" -> "a@x.com"
    [] s = "Jane" -> "jane"
    [] s = "Doe" -> "doe"
    [] OTHER -> s

StrRank(s) ==
  CASE s = "a@x.com" -> 1
    [] s = "b@x.com" -> 2
    [] s = "cafe" -> 3
    [] s = "https://facebook.com/cafe" -> 4
    [] s = "https://fb.com/cafe2" -> 5
    [] s = "https://x.com/cafe" -> 6
    [] s = "https://yelp.com/biz/cafe" -> 7
    [] s = "old" -> 8
    [] OTHER -> 9

\* sorted(S): the members of the set S in increasing order; the i-th is the
\* one with i - 1 members below it.
sorted(S) ==
  [i \in 1..Cardinality(S) |->
     CHOOSE x \in S : Cardinality({y \in S : StrRank(y) < StrRank(x)}) = i - 1]

RECURSIVE Flatten(_)
Flatten(ss) == IF ss = <<>> THEN <<>> ELSE Head(ss) \o Flatten(Tail(ss))

(***************************************************************************)
(* HTML pages.  A page is the parsed document: its elements, each the      *)
(* sequence of its text nodes, each a sequence of whitespace-separated     *)
(* tokens; and the href values of its anchors, in document order.  The     *)
(* empty string is the page EmptyHtml.                                     *)
(***************************************************************************)
EmptyHtml == [empty |-> TRUE, elements |-> <<>>, anchors |-> <<>>]

\* <p>Jane Doe - a@x.com</p> <a href=facebook>
ContactPage ==
  [empty |-> FALSE,
   elements |-> << << <<"Jane", "Doe", "-", "a@x.com">> >> >>,
   anchors |-> << "https://facebook.com/cafe" >>]

\* <p>Jane<br>A@X.com</p> <p>b@x.com<br>a@x.com</p> and five anchors
TeamPage ==
  [empty |-> FALSE,
   elements |-> << << <<"Jane">>, <<"A@X.com">> >>,
                   << <<"b@x.com">>, <<"a@x.com">> >> >>,
   anchors |-> << "https://instagram.com/", "https://instagram.com/cafe/",
                  "https://x.com/cafe", "https://fb.com/cafe2",
                  "https://facebook.com/cafe" >>]

\* <p>Menu</p> <a href=yelp> <a href=example.com>
MenuPage ==
  [empty |-> FALSE,
   elements |-> << << <<"Menu">> >> >>,
   anchors |-> << "https://yelp.com/biz/cafe", "https://example.com/" >>]

\* The pages a fixture may hold, and the pages a website may answer with.
Pages == {ContactPage, TeamPage, MenuPage}
WebPages == {TeamPage, MenuPage, EmptyHtml}

SocialFields == <<"facebook_url", "instagram_handle", "twitter_url", "yelp_url">>

\* urlparse(href) and the scan of SOCIAL_HOST_MAP: the fields whose host is
\* a substring of the href's netloc, in the order of the table.
HostFields(href) ==
  CASE href = "https://facebook.com/cafe" -> <<"facebook_url">>
    [] href = "https://fb.com/cafe2" -> <<"facebook_url">>
    [] href = "https://instagram.com/" -> <<"instagram_handle">>
    [] href = "https://instagram.com/cafe/" -> <<"instagram_handle">>
    [] href = "https://x.com/cafe" -> <<"twitter_url">>
    [] href = "https://yelp.com/biz/cafe" -> <<"yelp_url">>
    [] OTHER -> <<>>

\* parsed.path.strip("/")
PathHandle(href) ==
  CASE href = "https://instagram.com/cafe/" -> "cafe"
    [] href = "https://instagram.com/" -> ""
    [] OTHER -> href

normalize_email(text) == [i \in 1..Len(text) |-> Lower(text[i])]

\* The matches of EMAIL_REGEX in a text, in order.
RECURSIVE EmailMatches(_)
EmailMatches(text) ==
  IF text = <<>> THEN <<>>
  ELSE (IF Head(text) \in EmailTokens THEN <<Head(text)>> ELSE <<>>)
       \o EmailMatches(Tail(text))

\* A variant that keeps the matches as written, without normalize_email.
extract_emails_as_written(text) == sorted(Range(EmailMatches(text)))

\* extract_emails: the set of the normalized matches, sorted.
extract_emails(text) == sorted({Lower(m) : m \in Range(EmailMatches(text))})

\* What one anchor appends to the bucket of a field.
AnchorEntries(href, field) ==
  IF field \in Range(HostFields(href))
  THEN IF field = "instagram_handle"
       THEN (IF PathHandle(href) # "" THEN <<PathHandle(href)>> ELSE <<>>)
       ELSE <<href>>
  ELSE <<>>

RECURSIVE Bucket(_, _)
Bucket(anchors, field) ==
  IF anchors = <<>> THEN <<>>
  ELSE AnchorEntries(Head(anchors), field) \o Bucket(Tail(anchors), field)

\* The buckets as a function on the four fields; a field with no match has
\* the empty bucket (the defaultdict's .get() gives None: both are falsy).
extract_social_links(page) ==
  [f \in Range(SocialFields) |-> Bucket(page.anchors, f)]

\* str.split(sep, 1)[0]: the part of text before the first occurrence of sep,
\* the whole text when sep does not occur.
SplitBefore(text, sep) ==
  LET hits == {i \in 1..(Len(text) - Len(sep) + 1) :
                 SubSeq(text, i, i + Len(sep) - 1) = sep}
  IN IF hits = {} THEN text
     ELSE SubSeq(text, 1, (CHOOSE i \in hits : \A j \in hits : i <= j) - 1)

Separators == {"-", ":"}

\* str.strip(" -:\n\t") on a sequence of tokens.
RECURSIVE StripSeparators(_)
StripSeparators(text) ==
  IF text = <<>> THEN <<>>
  ELSE IF Head(text) \in Separators THEN StripSeparators(Tail(text))
  ELSE IF text[Len(text)] \in Separators
       THEN StripSeparators(SubSeq(text, 1, Len(text) - 1))
  ELSE text

\* The text nodes of a page that EMAIL_REGEX matches, each with the text of
\* its parent element, in document order.
RECURSIVE EmailNodesOf(_)
EmailNodesOf(elements) ==
  IF elements = <<>> THEN <<>>
  ELSE LET el == Head(elements)
           hits == SelectSeq(el, LAMBDA n : EmailMatches(n) # <<>>)
       IN [i \in 1..Len(hits) |-> [node |-> hits[i], parent |-> Flatten(el)]]
          \o EmailNodesOf(Tail(elements))

\* The loop of parse_contact_page over the matching text nodes.
RECURSIVE InferNames(_, _)
InferNames(nodes, email_to_name) ==
  IF nodes = <<>> THEN email_to_name
  ELSE LET n == Head(nodes)
           email == normalize_email(n.node)
           before_email == SplitBefore(n.parent, n.node)
           maybe_name == StripSeparators(before_email)
           next == IF maybe_name # <<>> /\ Len(maybe_name) <= 4
                   THEN [k \in DOMAIN email_to_name \cup {email} |->
                           IF k = email THEN maybe_name ELSE email_to_name[k]]
                   ELSE email_to_name
       IN InferNames(Tail(nodes), next)

\* A PageExtraction.  The keys of email_to_name are texts (sequences of
\* tokens); the key of an email e is <<e>>.  An absent name is <<>>.
parse_contact_page(html) ==
  LET emails == extract_emails(Flatten(Flatten(html.elements)))
      initial == [k \in {<<e>> : e \in Range(emails)} |-> <<>>]
  IN [emails |-> emails,
      email_to_name |-> InferNames(EmailNodesOf(html.elements), initial),
      social_links |-> extract_social_links(html)]

NameOf(extraction, email) ==
  IF <<email>> \in DOMAIN extraction.email_to_name
  THEN extraction.email_to_name[<<email>>] ELSE <<>>

(***************************************************************************)
(* Businesses and records (models.py, pipeline.py).                        *)
(***************************************************************************)
BusinessFields ==
  {"place_id", "location", "phone", "additional_phones", "website_url",
   "social_medias_raw", "facebook_url", "instagram_handle", "twitter_url",
   "yelp_url"}

\* The fields of Business that have no default value.
RequiredFields == {"place_id", "location", "phone"}

\* Business(**kwargs): the dataclass defaults for the fields not given.
BusinessDefault(field) ==
  IF field \in {"additional_phones", "social_medias_raw"} THEN <<>> ELSE None

NewBusiness(kwargs) ==
  [f \in BusinessFields |->
     IF f \in DOMAIN kwargs THEN kwargs[f] ELSE BusinessDefault(f)]

\* The loop of build_business over the two phone keys: <<primary_phone, phones>>.
RECURSIVE ScanPhones(_, _, _)
ScanPhones(values, primary_phone, phones) ==
  IF values = <<>> THEN <<primary_phone, phones>>
  ELSE LET value == Head(values)
       IN IF value = None
          THEN ScanPhones(Tail(values), primary_phone, phones)
          ELSE IF primary_phone \in {None, ""}
               THEN ScanPhones(Tail(values), value, phones)
               ELSE ScanPhones(Tail(values), primary_phone, Append(phones, value))

build_business(place, location) ==
  LET scan == ScanPhones(<<place.international_phone_number,
                           place.formatted_phone_number>>, None, <<>>)
  IN NewBusiness(
       [place_id |-> place.place_id,
        location |-> location,
        phone |-> scan[1],
        additional_phones |-> scan[2],
        website_url |-> IF place.website \in {None, ""} THEN None
                        ELSE place.website])

\* social_medias_raw of enrich_with_socials.
AllSocialLinks(extraction) ==
  sorted(UNION {Range(extraction.social_links[f]) : f \in Range(SocialFields)})

\* A platform field after enrich_with_socials.
EnrichedField(business, extraction, field) ==
  IF extraction.social_links[field] # <<>>
  THEN extraction.social_links[field][1]
  ELSE business[field]

\* The business with its five social fields replaced.
WithSocials(business, raw, facebook, instagram, twitter, yelp) ==
  [place_id |-> business.place_id,
   location |-> business.location,
   phone |-> business.phone,
   additional_phones |-> business.additional_phones,
   website_url |-> business.website_url,
   social_medias_raw |-> raw,
   facebook_url |-> facebook,
   instagram_handle |-> instagram,
   twitter_url |-> twitter,
   yelp_url |-> yelp]

\* A variant that appends to social_medias_raw instead of replacing it.
enrich_with_socials_appending(business, extraction) ==
  WithSocials(business,
              business.social_medias_raw \o AllSocialLinks(extraction),
              EnrichedField(business, extraction, "facebook_url"),
              EnrichedField(business, extraction, "instagram_handle"),
              EnrichedField(business, extraction, "twitter_url"),
              EnrichedField(business, extraction, "yelp_url"))

\* The business after enrich_with_socials(business, extraction).
enrich_with_socials(business, extraction) ==
  WithSocials(business,
              AllSocialLinks(extraction),
              EnrichedField(business, extraction, "facebook_url"),
              EnrichedField(business, extraction, "instagram_handle"),
              EnrichedField(business, extraction, "twitter_url"),
              EnrichedField(business, extraction, "yelp_url"))

\* A variant that keeps one record per business: the first email only.
expand_email_records_deduplicated(business, extraction, source_url, scrape_notes) ==
  IF extraction.emails = <<>> THEN <<>>
  ELSE << [business |-> business,
           email |-> extraction.emails[1],
           email_owner_name |-> NameOf(extraction, extraction.emails[1]),
           source_url |-> source_url,
           scrape_notes |-> scrape_notes] >>

\* The records of one business; `business` is the reference to the object.
expand_email_records(business, extraction, source_url, scrape_notes) ==
  [i \in 1..Len(extraction.emails) |->
     [business |-> business,
      email |-> extraction.emails[i],
      email_owner_name |-> NameOf(extraction, extraction.emails[i]),
      source_url |-> source_url,
      scrape_notes |-> scrape_notes]]

\* EmailRecord.to_row(): the business values are read through the reference.
to_row(record, heap) ==
  [business |-> heap[record.business],
   email |-> record.email,
   email_owner_name |-> record.email_owner_name,
   source_url |-> record.source_url,
   scrape_notes |-> record.scrape_notes]

(***************************************************************************)
(* The outside world: what the search API and the websites may answer.     *)
(***************************************************************************)
ApiStatuses == {"OK", "ZERO_RESULTS", "OVER_QUERY_LIMIT", "REQUEST_DENIED"}

\* A response that raise_for_status() rejects.
HttpErrorResponse == [http_ok |-> FALSE, status |-> None]

PlaceSummaries == {[place_id |-> None], [place_id |-> "p1"]}

\* The API's contract for ZERO_RESULTS: a payload with no result; every other
\* status may come with any results and token (the client reads them anyway).
SearchResponses ==
  {HttpErrorResponse} \cup
  [http_ok : {TRUE}, status : ApiStatuses \ {"ZERO_RESULTS"},
   results : BoundedSeq(PlaceSummaries, MaxPageLen),
   next_page_token : {None, "t1"}] \cup
  [http_ok : {TRUE}, status : {"ZERO_RESULTS"}, results : {<<>>},
   next_page_token : {None}]

NoResult == [absent |-> TRUE]

DetailRecords ==
  { [place_id |-> "p1", website |-> "https://cafe.example",
     international_phone_number |-> "+1 555 0100",
     formatted_phone_number |-> "555 0100"],
    [place_id |-> "p2", website |-> None,
     international_phone_number |-> None,
     formatted_phone_number |-> "555 0100"],
    [place_id |-> "p3", website |-> "",
     international_phone_number |-> "",
     formatted_phone_number |-> None],
    [place_id |-> None, website |-> "https://cafe.example",
     international_phone_number |-> None,
     formatted_phone_number |-> None] }

DetailResponses ==
  {HttpErrorResponse} \cup
  [http_ok : {TRUE}, status : ApiStatuses \ {"ZERO_RESULTS"},
   result : DetailRecords \cup {NoResult}] \cup
  [http_ok : {TRUE}, status : {"ZERO_RESULTS"}, result : {NoResult}]

HttpStatuses == {200, 404, 429, 503}

WebResponses == [status_code : HttpStatuses, text : WebPages]

RequestDelays == {5, 15}

Backoffs == {0, 10, 30}

\* WebFetcher's defaults, which run_pipeline uses.
DefaultMaxRetries == 3
DefaultBackoff == 30
retry_statuses == {429, 503}

\* sleep(2.0) of iter_city_places, and the 2.0 of _get.
PageTokenDelay == 20
MinQuotaDelay == 20

(***************************************************************************)
(* The fixture of demo mode.  A business mapping is a function on the keys *)
(* it gives; << >> is the mapping with no key (or no mapping at all).  A   *)
(* location is the index of the city, 0 for the fixture's.                 *)
(***************************************************************************)
NoBusinessData == [k \in {} |-> None]

FixtureBusinesses ==
  { NoBusinessData,
    [location |-> 0],
    [place_id |-> "f1", location |-> 0, phone |-> None,
     website_url |-> "https://cafe.example", instagram_handle |-> "old"],
    [place_id |-> "f2", location |-> 0, phone |-> "555 0100"] }

FixtureOverrides ==
  { <<>>,
    << [email |-> "A@X.com", owner |-> <<"Boss">>],
       [email |-> "b@x.com", owner |-> <<>>] >> }

FixtureEntries ==
  [business : FixtureBusinesses,
   html : Pages \cup {NoneHtml},
   email_owner_overrides : FixtureOverrides,
   source_url : {None},
   scrape_notes : {None, "note"}]

(***************************************************************************)
(* State.  `businesses` holds the Business objects that EmailRecords       *)
(* reference (a reference is an index); the object process_city is working *)
(* on is in `business` until records refer to it.  A frame that has        *)
(* returned (a generator, fetch, a loop variable) is reset to its initial  *)
(* value.                                                                  *)
(***************************************************************************)
VARIABLES
  settings,        \* ProjectSettings
  fetcher,         \* WebFetcher: max_retries, backoff_seconds
  pc,              \* where the run is
  raised,          \* the exception that ended the run, None when none
  export_file,     \* the rows of the CSV file; <<>> while no file is written
  city,            \* run_pipeline: index of the city being processed
  all_records,     \* run_pipeline / run_demo_pipeline: all_records
  records,         \* process_city: records
  gen,             \* the frame of the running iter_city_places generator
  businesses,      \* the Business objects the records reference
  business,        \* process_city: business, NoBusiness when none
  fetch,           \* the frame of WebFetcher.fetch and what it did
  extraction,      \* the PageExtraction given to enrich_with_socials (EnrichSpec)
  entry_index,     \* run_demo_pipeline: position in fixture_entries
  entry,           \* run_demo_pipeline: entry
  last_api,        \* the last API response, and the time the client slept since
  yielded,         \* places yielded by the running iter_city_places
  details_fetched, \* detail requests issued for the current city
  biz_log,         \* for `business`: website requests issued, html fetched
  enrich_count     \* applications of enrich_with_socials (EnrichSpec)

vars == <<settings, fetcher, pc, raised, export_file, city, all_records,
          records, gen, businesses, business, fetch, extraction, entry_index,
          entry, last_api, yielded, details_fetched, biz_log, enrich_count>>

NoExtraction == [emails |-> <<>>, email_to_name |-> <<>>,
                 social_links |-> [f \in Range(SocialFields) |-> <<>>]]

NoBusiness == [absent |-> TRUE]

\* Of the payload the generator holds what it still reads: the results the
\* for loop has not taken yet, and the token.
NewGen == [fetched |-> 0, next_page_token |-> None, pagetoken |-> None,
           payload |-> [results |-> <<>>, next_page_token |-> None]]

\* fetch's frame (url, attempt), what it has seen and done (the status of
\* every response, every wait, the text of the last response), its result.
NewFetch(url) == [url |-> url, attempt |-> 1, statuses |-> <<>>, waits |-> <<>>,
                  text |-> NoneHtml, result |-> NoneHtml]

NoEntry == [business |-> NoBusinessData, html |-> NoneHtml,
            email_owner_overrides |-> <<>>, source_url |-> None,
            scrape_notes |-> None]

\* Nothing known about `business`: no website request yet, no html, and the
\* number of records process_city held when it got the business.
NewLog(before) == [requests |-> 0, html |-> NoneHtml, before |-> before,
                   handled |-> FALSE]

LiveSettings ==
  [is_demo : {FALSE}, google_api_key : {None, "key"},
   cities : 0..MaxCities, request_delay_seconds : RequestDelays,
   max_results_per_city : 0..MaxResultsBound, entries : {0}]

DemoSettings ==
  [is_demo : {TRUE}, google_api_key : {None},
   cities : {0}, request_delay_seconds : {15},
   max_results_per_city : {MaxResultsBound}, entries : 0..MaxEntries]

IdleHeap ==
  /\ businesses = <<>>
  /\ business = NoBusiness
  /\ extraction = NoExtraction

Idle ==
  /\ raised = None
  /\ export_file = <<>>
  /\ city = 1
  /\ all_records = <<>>
  /\ records = <<>>
  /\ gen = NewGen
  /\ fetch = NewFetch(None)
  /\ entry_index = 1
  /\ entry = NoEntry
  /\ last_api = [kind |-> "none", status |-> None, slept |-> 0]
  /\ yielded = 0
  /\ details_fetched = 0
  /\ biz_log = NewLog(0)
  /\ enrich_count = 0

Init ==
  /\ settings \in LiveSettings \cup DemoSettings
  /\ fetcher = [max_retries |-> DefaultMaxRetries, backoff_seconds |-> DefaultBackoff]
  /\ pc = "run_pipeline"
  /\ Idle
  /\ IdleHeap

(***************************************************************************)
(* The Search Client (google_maps.py).                                     *)
(***************************************************************************)
\* A variant that lets REQUEST_DENIED through.
AcceptedStatuses_lenient == {"OK", "ZERO_RESULTS", "OVER_QUERY_LIMIT", "REQUEST_DENIED"}

\* The statuses _get does not raise on.
AcceptedStatuses == {"OK", "ZERO_RESULTS", "OVER_QUERY_LIMIT"}

\* The exception _get raises on a response, None when it returns the payload.
GetError(response) ==
  IF ~response.http_ok THEN "HTTPError"
  ELSE IF response.status \notin AcceptedStatuses THEN "RuntimeError"
  ELSE None

\* A variant that sleeps request_delay_seconds on every status.
ApiSleep_flat(status) == settings.request_delay_seconds

\* The time _get sleeps before it returns a payload of this status.
ApiSleep(status) ==
  IF status = "OVER_QUERY_LIMIT"
  THEN Max(settings.request_delay_seconds * 2, MinQuotaDelay)
  ELSE settings.request_delay_seconds

Raise(exception) ==
  /\ pc' = "raised"
  /\ raised' = exception

\* iter_city_places returns: iter_city_businesses and process_city end with
\* it, and run_pipeline takes the city's records and goes to the next city.
CityDone ==
  /\ all_records' = all_records \o records
  /\ records' = <<>>
  /\ city' = city + 1
  /\ gen' = NewGen
  /\ yielded' = 0
  /\ details_fetched' = 0
  /\ pc' = "cities"

\* run_pipeline up to its loop over the cities.
run_pipeline ==
  /\ pc = "run_pipeline"
  /\ IF settings.is_demo
     THEN pc' = "demo" /\ raised' = raised
     ELSE IF settings.google_api_key = None
          THEN Raise("ValueError")
          ELSE pc' = "cities" /\ raised' = raised
  /\ UNCHANGED <<settings, fetcher, export_file, city, all_records, records,
                 gen, businesses, business, fetch, extraction, entry_index,
                 entry, last_api, yielded, details_fetched, biz_log,
                 enrich_count>>

\* The head of run_pipeline's loop: the next city's process_city starts
\* iter_city_places, or the loop ends and the records are written.
NextCity ==
  /\ pc = "cities"
  /\ pc' = IF city > settings.cities THEN "write" ELSE "search"
  /\ UNCHANGED <<settings, fetcher, raised, export_file, city, all_records,
                 records, gen, businesses, business, fetch, extraction,
                 entry_index, entry, last_api, yielded, details_fetched,
                 biz_log, enrich_count>>

\* iter_city_places: the head of the while loop and the _get of a page.
SearchPage ==
  /\ pc = "search"
  /\ \E response \in SearchResponses :
       LET pagetoken == IF gen.next_page_token # None
                        THEN gen.next_page_token ELSE gen.pagetoken
       IN IF GetError(response) # None
          THEN /\ Raise(GetError(response))
               /\ gen' = [gen EXCEPT !.pagetoken = pagetoken]
               /\ last_api' = [kind |-> "search", status |-> response.status,
                               slept |-> 0]
          ELSE /\ pc' = "results"
               /\ raised' = raised
               /\ gen' = [gen EXCEPT
                            !.pagetoken = pagetoken,
                            !.payload = [results |-> response.results,
                                         next_page_token |-> response.next_page_token]]
               /\ last_api' = [kind |-> "search", status |-> response.status,
                               slept |-> ApiSleep(response.status)]
  /\ UNCHANGED <<settings, fetcher, export_file, city, all_records, records,
                 businesses, business, fetch, extraction, entry_index, entry,
                 yielded, details_fetched, biz_log, enrich_count>>

\* iter_city_places: the for loop takes the next result of the page and
\* yields it to iter_city_businesses, which skips a place with no place_id;
\* after the last result the page's token decides.
NextResult ==
  /\ pc = "results"
  /\ IF gen.payload.results # <<>>
     THEN /\ gen' = [gen EXCEPT !.payload.results = Tail(@)]
          /\ yielded' = yielded + 1
          /\ pc' = IF Head(gen.payload.results).place_id = None
                   THEN "resume" ELSE "details"
          /\ UNCHANGED <<last_api, all_records, records, city, details_fetched>>
     ELSE IF gen.payload.next_page_token = None
          THEN /\ CityDone
               /\ UNCHANGED last_api
          ELSE /\ gen' = [gen EXCEPT !.next_page_token = gen.payload.next_page_token]
               /\ last_api' = [last_api EXCEPT !.slept = @ + PageTokenDelay]
               /\ pc' = "search"
               /\ UNCHANGED <<yielded, all_records, records, city, details_fetched>>
  /\ UNCHANGED <<settings, fetcher, raised, export_file, businesses, business,
                 fetch, extraction, entry_index, entry, biz_log, enrich_count>>

\* iter_city_places resumes after a yield (process_city's and
\* iter_city_businesses' loops ask for the next place): count the place,
\* test the cap.
Resume ==
  /\ pc = "resume"
  /\ business' = NoBusiness
  /\ biz_log' = NewLog(0)
  /\ IF gen.fetched + 1 >= settings.max_results_per_city
     THEN CityDone
     ELSE /\ gen' = [gen EXCEPT !.fetched = @ + 1]
          /\ pc' = "results"
          /\ UNCHANGED <<all_records, records, city, yielded, details_fetched>>
  /\ UNCHANGED <<settings, fetcher, raised, export_file, businesses, fetch,
                 extraction, entry_index, entry, last_api, enrich_count>>

\* iter_city_businesses: fetch_place_details and build_business.
FetchPlaceDetails ==
  /\ pc = "details"
  /\ details_fetched' = details_fetched + 1
  /\ \E response \in DetailResponses :
       IF GetError(response) # None
       THEN /\ Raise(GetError(response))
            /\ last_api' = [kind |-> "details", status |-> response.status,
                            slept |-> 0]
            /\ UNCHANGED <<business, biz_log>>
       ELSE /\ last_api' = [kind |-> "details", status |-> response.status,
                            slept |-> ApiSleep(response.status)]
            /\ IF response.result = NoResult
               THEN /\ Raise("RuntimeError")
                    /\ UNCHANGED <<business, biz_log>>
               ELSE IF response.result.place_id = None
               THEN /\ Raise("KeyError")
                    /\ UNCHANGED <<business, biz_log>>
               ELSE /\ business' = build_business(response.result, city)
                    /\ biz_log' = NewLog(Len(records))
                    /\ pc' = "business"
                    /\ raised' = raised
  /\ UNCHANGED <<settings, fetcher, export_file, city, all_records, records,
                 gen, businesses, fetch, extraction, entry_index, entry,
                 yielded, enrich_count>>

\* A variant that fetches also when there is no website_url.
HasWebsite_always(b) == TRUE

\* process_city: `if not business.website_url` is false.
HasWebsite(b) == b.website_url # None

\* process_city: the business iter_city_businesses yielded.
ProcessBusiness ==
  /\ pc = "business"
  /\ IF HasWebsite(business)
     THEN /\ fetch' = NewFetch(business.website_url)
          /\ pc' = "fetch"
          /\ biz_log' = biz_log
     ELSE /\ pc' = "resume"
          /\ fetch' = fetch
          /\ biz_log' = [biz_log EXCEPT !.handled = TRUE]
  /\ UNCHANGED <<settings, fetcher, raised, export_file, city, all_records,
                 records, gen, businesses, business, extraction, entry_index,
                 entry, last_api, yielded, details_fetched, enrich_count>>

(***************************************************************************)
(* The Web Fetcher (web.py).                                               *)
(***************************************************************************)
\* A variant whose backoff does not grow with the attempt.
wait_time_constant(attempt) == fetcher.backoff_seconds

wait_time(attempt) == fetcher.backoff_seconds * attempt

\* A variant that returns the text of an error response too.
FetchResult_any(response) == response.text

\* What fetch returns on a response whose status is not retryable.
FetchResult(response) ==
  IF response.status_code >= 400 THEN NoneHtml ELSE response.text

\* One pass of fetch's loop: a request and what follows its response.
FetchAttempt ==
  /\ pc = "fetch"
  /\ fetch.attempt <= fetcher.max_retries
  /\ biz_log' = [biz_log EXCEPT !.requests = @ + 1]
  /\ \E response \in WebResponses :
       IF response.status_code \in retry_statuses
       THEN /\ fetch' = [fetch EXCEPT
                           !.statuses = Append(@, response.status_code),
                           !.waits = Append(@, wait_time(fetch.attempt)),
                           !.attempt = @ + 1]
            /\ pc' = "fetch"
       ELSE /\ fetch' = [fetch EXCEPT
                           !.statuses = Append(@, response.status_code),
                           !.text = response.text,
                           !.result = FetchResult(response)]
            /\ pc' = "fetched"
  /\ UNCHANGED <<settings, fetcher, raised, export_file, city, all_records,
                 records, gen, businesses, business, extraction, entry_index,
                 entry, last_api, yielded, details_fetched, enrich_count>>

\* fetch's loop is exhausted: "Giving up", return None.
FetchGiveUp ==
  /\ pc = "fetch"
  /\ fetch.attempt > fetcher.max_retries
  /\ fetch' = [fetch EXCEPT !.result = NoneHtml]
  /\ pc' = "fetched"
  /\ UNCHANGED <<settings, fetcher, raised, export_file, city, all_records,
                 records, gen, businesses, business, extraction, entry_index,
                 entry, last_api, yielded, details_fetched, biz_log,
                 enrich_count>>

\* `not html`
Falsy(html) == html = NoneHtml \/ html.empty

\* The heap once `records` refer to the object b: b is added when they do.
Referenced(heap, b, new_records) ==
  IF new_records = <<>> THEN heap ELSE Append(heap, b)

\* process_city after fetch returned: parse, enrich, expand.
ProcessHtml ==
  /\ pc = "fetched"
  /\ business # NoBusiness
  /\ biz_log' = [biz_log EXCEPT !.html = fetch.result, !.handled = TRUE]
  /\ fetch' = NewFetch(None)
  /\ IF Falsy(fetch.result)
     THEN UNCHANGED <<business, businesses, records>>
     ELSE LET parsed == parse_contact_page(fetch.result)
              enriched == enrich_with_socials(business, parsed)
              city_records == expand_email_records(Len(businesses) + 1, parsed,
                                                   business.website_url, "website")
          IN /\ business' = enriched
             /\ businesses' = Referenced(businesses, enriched, city_records)
             /\ records' = records \o city_records
  /\ pc' = "resume"
  /\ UNCHANGED <<settings, fetcher, raised, export_file, city, all_records,
                 gen, extraction, entry_index, entry, last_api, yielded,
                 details_fetched, enrich_count>>

\* write_email_records: no rows, no file.
write_email_records ==
  /\ pc = "write"
  /\ export_file' = [i \in 1..Len(all_records) |-> to_row(all_records[i], businesses)]
  /\ pc' = "done"
  /\ UNCHANGED <<settings, fetcher, raised, city, all_records, records, gen,
                 businesses, business, fetch, extraction, entry_index, entry,
                 last_api, yielded, details_fetched, biz_log, enrich_count>>

(***************************************************************************)
(* Demo mode (pipeline.py, run_demo_pipeline).                             *)
(***************************************************************************)
\* Business(**business_kwargs) raises TypeError on a missing required field
\* or an unknown key.
ValidKwargs(data) ==
  /\ RequiredFields \subseteq DOMAIN data
  /\ DOMAIN data \subseteq BusinessFields

_build_business_from_fixture(data) == NewBusiness(data)

\* The loop over email_owner_overrides.items().
RECURSIVE ApplyOverrides(_, _)
ApplyOverrides(overrides, email_to_name) ==
  IF overrides = <<>> THEN email_to_name
  ELSE LET o == Head(overrides)
           normalized == <<Lower(o.email)>>
           next == IF o.owner # <<>> /\ normalized \in DOMAIN email_to_name
                   THEN [email_to_name EXCEPT ![normalized] = o.owner]
                   ELSE email_to_name
       IN ApplyOverrides(Tail(overrides), next)

\* `a or b`
OrElse(a, b) == IF a = None THEN b ELSE a

\* One pass of run_demo_pipeline's loop over the fixture entries.
DemoEntry ==
  /\ pc = "demo"
  /\ entry_index <= settings.entries
  /\ entry_index' = entry_index + 1
  /\ \E e \in FixtureEntries :
       /\ entry' = e
       /\ IF DOMAIN e.business = {}
          THEN /\ pc' = "demo"
               /\ UNCHANGED <<raised, businesses, all_records>>
          ELSE IF ~ValidKwargs(e.business)
          THEN /\ Raise("TypeError")
               /\ UNCHANGED <<businesses, all_records>>
          ELSE IF e.html = NoneHtml
          THEN /\ pc' = "demo"
               /\ UNCHANGED <<raised, businesses, all_records>>
          ELSE LET parsed == parse_contact_page(e.html)
                   b == enrich_with_socials(
                          _build_business_from_fixture(e.business), parsed)
                   named == [parsed EXCEPT !.email_to_name =
                               ApplyOverrides(e.email_owner_overrides, @)]
                   source_url == OrElse(e.source_url, OrElse(b.website_url, "demo"))
                   notes == OrElse(e.scrape_notes, "demo_fixture")
                   new_records == expand_email_records(Len(businesses) + 1,
                                                       named, source_url, notes)
               IN /\ businesses' = Referenced(businesses, b, new_records)
                  /\ all_records' = all_records \o new_records
                  /\ pc' = "demo"
                  /\ raised' = raised
  /\ UNCHANGED <<settings, fetcher, export_file, city, records, gen, business,
                 fetch, extraction, last_api, yielded, details_fetched,
                 biz_log, enrich_count>>

\* run_demo_pipeline's loop ends: write the records.
DemoEnd ==
  /\ pc = "demo"
  /\ entry_index > settings.entries
  /\ pc' = "write"
  /\ entry' = NoEntry
  /\ UNCHANGED <<settings, fetcher, raised, export_file, city, all_records,
                 records, gen, businesses, business, fetch, extraction,
                 entry_index, last_api, yielded, details_fetched, biz_log,
                 enrich_count>>

(***************************************************************************)
(* The run of the program.                                                 *)
(***************************************************************************)
Next ==
  \/ run_pipeline
  \/ NextCity
  \/ SearchPage
  \/ NextResult
  \/ Resume
  \/ FetchPlaceDetails
  \/ ProcessBusiness
  \/ FetchAttempt
  \/ FetchGiveUp
  \/ ProcessHtml
  \/ DemoEntry
  \/ DemoEnd
  \/ write_email_records

Spec == Init /\ [][Next]_vars

\* The program is one thread that runs until it ends or raises.
FairSpec == Spec /\ WF_vars(Next)

(***************************************************************************)
(* WebFetcher.fetch alone, for every max_retries and backoff_seconds.      *)
(***************************************************************************)
FetchInit ==
  /\ settings \in {s \in LiveSettings :
                     /\ s.google_api_key = "key" /\ s.cities = 0
                     /\ s.request_delay_seconds = 15
                     /\ s.max_results_per_city = 0}
  /\ fetcher \in [max_retries : 0..MaxRetriesBound, backoff_seconds : Backoffs]
  /\ pc = "fetch"
  /\ Idle
  /\ IdleHeap

FetchNext == FetchAttempt \/ FetchGiveUp

FetchSpec == FetchInit /\ [][FetchNext]_vars

(***************************************************************************)
(* enrich_with_socials alone, applied twice to any business and extraction.*)
(***************************************************************************)
Links == {"cafe", "https://facebook.com/cafe"}

EnrichBusinesses ==
  { NewBusiness([place_id |-> "p1", location |-> 1, phone |-> None]),
    NewBusiness([place_id |-> "f1", location |-> 0, phone |-> "555 0100",
                 website_url |-> "https://cafe.example",
                 social_medias_raw |-> <<"old">>, facebook_url |-> "old",
                 instagram_handle |-> "old", twitter_url |-> "old",
                 yelp_url |-> "old"]) }

EnrichInit ==
  /\ settings \in {s \in DemoSettings : s.entries = 0}
  /\ fetcher = [max_retries |-> DefaultMaxRetries, backoff_seconds |-> DefaultBackoff]
  /\ pc = "enrich"
  /\ Idle
  /\ businesses = <<>>
  /\ business \in EnrichBusinesses
  /\ extraction \in [emails : {<<>>}, email_to_name : {<<>>},
                     social_links : [Range(SocialFields) ->
                                       BoundedSeq(Links, MaxBucketLen)]]

ApplyEnrich ==
  /\ pc = "enrich"
  /\ enrich_count < 2
  /\ business' = enrich_with_socials(business, extraction)
  /\ enrich_count' = enrich_count + 1
  /\ UNCHANGED <<settings, fetcher, pc, raised, export_file, city, all_records,
                 records, gen, businesses, fetch, extraction, entry_index,
                 entry, last_api, yielded, details_fetched, biz_log>>

EnrichNext == ApplyEnrich

EnrichSpec == EnrichInit /\ [][EnrichNext]_vars

(***************************************************************************)
(* parse_contact_page alone, on every page of one element with up to       *)
(* MaxNodes text nodes of up to MaxNodeLen tokens, and on the pages above. *)
(***************************************************************************)
Tokens == {"Jane", "A@X.com", "a@x.com", "b@x.com"}

TextNodes == BoundedSeq(Tokens, MaxNodeLen) \ {<<>>}

ParsePages ==
  Pages \cup
  {[empty |-> FALSE, elements |-> <<el>>, anchors |-> <<>>] :
     el \in BoundedSeq(TextNodes, MaxNodes)}

ParseInit ==
  /\ settings \in {s \in DemoSettings : s.entries = 0}
  /\ fetcher = [max_retries |-> DefaultMaxRetries, backoff_seconds |-> DefaultBackoff]
  /\ pc = "parse"
  /\ raised = None
  /\ export_file = <<>>
  /\ city = 1
  /\ all_records = <<>>
  /\ records = <<>>
  /\ gen = NewGen
  /\ fetch = NewFetch(None)
  /\ entry_index = 1
  /\ entry \in {[NoEntry EXCEPT !.html = page] : page \in ParsePages}
  /\ last_api = [kind |-> "none", status |-> None, slept |-> 0]
  /\ yielded = 0
  /\ details_fetched = 0
  /\ biz_log = NewLog(0)
  /\ enrich_count = 0
  /\ IdleHeap

ApplyParse ==
  /\ pc = "parse"
  /\ extraction' = parse_contact_page(entry.html)
  /\ pc' = "parsed"
  /\ UNCHANGED <<settings, fetcher, raised, export_file, city, all_records,
                 records, gen, businesses, business, fetch, entry_index,
                 entry, last_api, yielded, details_fetched, biz_log,
                 enrich_count>>

ParseNext == ApplyParse

ParseSpec == ParseInit /\ [][ParseNext]_vars

(***************************************************************************)
(* build_business alone, on every detail record whose two phone fields are *)
(* absent, empty or a number.                                              *)
(***************************************************************************)
PhoneValues == {None, "", "+1 555 0100", "555 0100"}

BuildPlaces ==
  [place_id : {"p1", "p2"},
   website : {None, "", "https://cafe.example"},
   international_phone_number : PhoneValues,
   formatted_phone_number : PhoneValues]

BuildInit ==
  /\ settings \in {s \in LiveSettings :
                     /\ s.google_api_key = "key" /\ s.cities = 1
                     /\ s.request_delay_seconds = 15
                     /\ s.max_results_per_city = 1}
  /\ fetcher = [max_retries |-> DefaultMaxRetries, backoff_seconds |-> DefaultBackoff]
  /\ pc = "build"
  /\ raised = None
  /\ export_file = <<>>
  /\ city = 1
  /\ all_records = <<>>
  /\ records = <<>>
  /\ gen = NewGen
  /\ fetch = NewFetch(None)
  /\ entry_index = 1
  /\ entry = NoEntry
  /\ last_api \in {[kind |-> "details", status |-> "OK", slept |-> 0,
                    result |-> place] : place \in BuildPlaces}
  /\ yielded = 0
  /\ details_fetched = 0
  /\ biz_log = NewLog(0)
  /\ enrich_count = 0
  /\ IdleHeap

ApplyBuild ==
  /\ pc = "build"
  /\ business' = build_business(last_api.result, city)
  /\ pc' = "built"
  /\ UNCHANGED <<settings, fetcher, raised, export_file, city, all_records,
                 records, gen, businesses, fetch, extraction, entry_index,
                 entry, last_api, yielded, details_fetched, biz_log,
                 enrich_count>>

BuildNext == ApplyBuild

BuildSpec == BuildInit /\ [][BuildNext]_vars

(***************************************************************************)
(* Properties.                                                             *)
(***************************************************************************)
RECURSIVE SumSeq(_)
SumSeq(q) == IF q = <<>> THEN 0 ELSE Head(q) + SumSeq(Tail(q))

AllRetryable(statuses) ==
  \A i \in 1..Len(statuses) : statuses[i] \in retry_statuses

LastStatus == fetch.statuses[Len(fetch.statuses)]

\* C1: for max_retries >= 1, a fetch all of whose responses carry a
\* retryable status issues exactly max_retries requests, waits
\* backoff_seconds * k after the k-th of them (backoff_seconds *
\* (1 + ... + max_retries) in all) and returns None without raising.
C1_RetriesExhausted ==
  /\ \A k \in 1..Len(fetch.waits) :
       fetch.waits[k] = fetcher.backoff_seconds * k
  /\ (pc = "fetched" /\ fetcher.max_retries >= 1 /\ AllRetryable(fetch.statuses)) =>
       /\ Len(fetch.statuses) = fetcher.max_retries
       /\ Len(fetch.waits) = fetcher.max_retries
       /\ 2 * SumSeq(fetch.waits) =
            fetcher.backoff_seconds * fetcher.max_retries * (fetcher.max_retries + 1)
       /\ fetch.result = NoneHtml
       /\ raised = None

C1_Witness ==
  /\ pc = "fetched"
  /\ fetcher.max_retries = 3
  /\ fetcher.backoff_seconds = 30
  /\ fetch.statuses = <<503, 429, 503>>
  /\ fetch.waits = <<30, 60, 90>>

\* C2: fetch ends at the first response whose status is not retryable: it
\* returns None when the status is >= 400 and the response's text otherwise,
\* with no wait after that response and no further request, whatever the
\* number of attempts left.
C2_FirstFinalResponseEnds ==
  /\ pc = "fetch" => AllRetryable(fetch.statuses)
  /\ (pc = "fetched" /\ ~AllRetryable(fetch.statuses)) =>
       /\ AllRetryable(SubSeq(fetch.statuses, 1, Len(fetch.statuses) - 1))
       /\ Len(fetch.waits) = Len(fetch.statuses) - 1
       /\ fetch.result = IF LastStatus >= 400 THEN NoneHtml ELSE fetch.text
       /\ raised = None

C2_Witness ==
  /\ pc = "fetched"
  /\ fetcher.max_retries = 3
  /\ fetch.statuses = <<503, 404>>
  /\ fetch.text # EmptyHtml
  /\ fetch.result = NoneHtml

\* C3: iter_city_places yields at most max_results places, and
\* iter_city_businesses issues at most max_results detail fetches per city,
\* for every max_results >= 0.
C3_AtMostMaxResults ==
  /\ yielded <= settings.max_results_per_city
  /\ details_fetched <= settings.max_results_per_city

QuotaWait == Max(2 * settings.request_delay_seconds, MinQuotaDelay)

SearchOverQueryLimit ==
  last_api.kind = "search" /\ last_api.status = "OVER_QUERY_LIMIT"

\* C4: after a place-search response with status OVER_QUERY_LIMIT the client
\* raises no error, has slept at least max(2 * request_delay_seconds, 2.0)
\* before any later API request, and requests a page of the same search
\* again only as the page the response's next_page_token names.
C4_OverQueryLimitThrottles ==
  SearchOverQueryLimit =>
    /\ raised = None
    /\ last_api.slept >= QuotaWait
    /\ (pc = "search" /\ gen # NewGen) =>
         /\ gen.payload.next_page_token # None
         /\ gen.next_page_token = gen.payload.next_page_token

C4_Witness ==
  /\ SearchOverQueryLimit
  /\ settings.request_delay_seconds = 5
  /\ pc = "details"

\* C5: in live mode an API response whose status is outside {OK,
\* ZERO_RESULTS, OVER_QUERY_LIMIT} ends the run in an error: nothing is
\* requested or fetched after it and no export file is written, also when
\* earlier cities had produced records.
C5_UnexpectedStatusIsFatal ==
  /\ [](last_api.status \in ApiStatuses \ {"OK", "ZERO_RESULTS", "OVER_QUERY_LIMIT"} =>
          /\ pc = "raised"
          /\ raised = "RuntimeError"
          /\ export_file = <<>>)
  /\ [][pc = "raised" => UNCHANGED vars]_vars

C5_Witness ==
  /\ pc = "raised"
  /\ last_api.status = "REQUEST_DENIED"
  /\ last_api.kind = "details"
  /\ all_records # <<>>
  /\ export_file = <<>>

\* The records process_city has added since it got `business`.
NewRecords == SubSeq(records, biz_log.before + 1, Len(records))

\* C6: a business whose website fetch is not None and whose page yields K
\* emails gives exactly K EmailRecords, one per email in the extraction's
\* order, all referencing one Business object, which is the enriched one.
C6_OneRecordPerEmail ==
  (pc = "resume" /\ biz_log.handled /\ biz_log.html # NoneHtml) =>
    LET parsed == parse_contact_page(biz_log.html)
        K == Len(parsed.emails)
    IN /\ Len(records) = biz_log.before + K
       /\ \A i \in 1..K :
            /\ NewRecords[i].email = parsed.emails[i]
            /\ NewRecords[i].business = Len(businesses)
            /\ businesses[NewRecords[i].business] = business
       /\ \A j \in 1..biz_log.before : K > 0 => records[j].business # Len(businesses)
       /\ \A j \in 1..Len(all_records) : K > 0 => all_records[j].business # Len(businesses)
       /\ K > 0 => business.social_medias_raw = AllSocialLinks(parsed)

C6_Witness ==
  /\ pc = "resume"
  /\ biz_log.handled
  /\ biz_log.html = TeamPage
  /\ Len(NewRecords) = 2
  /\ NewRecords[1].email = "a@x.com"
  /\ NewRecords[2].email = "b@x.com"
  /\ businesses[NewRecords[2].business].instagram_handle = "cafe"
  /\ all_records # <<>>

\* C7: a fully consumed iter_city_places terminates, whatever the search API
\* answers: a page request is always followed by the end of the iteration.
C7_IterationEnds == (pc = "search") ~> (pc \in {"cities", "raised"})

\* process_city skips `business`: it has no website, or its fetch gave None.
Skipping ==
  \/ pc = "business" /\ business.website_url = None
  \/ pc = "fetched" /\ business # NoBusiness /\ fetch.result = NoneHtml

\* C8: a business with no website URL, or whose fetch returns None, adds no
\* EmailRecord and raises no error; for a business with no website URL no
\* website request is issued; process_city goes on to the next business and
\* the records it holds stay as they are.
C8_SkippedBusiness ==
  /\ []((business # NoBusiness /\ business.website_url = None) =>
          /\ biz_log.requests = 0
          /\ pc \in {"business", "resume"}
          /\ raised = None)
  /\ [][Skipping =>
          /\ pc' = "resume"
          /\ raised' = None
          /\ records' = records
          /\ all_records' = all_records
          /\ businesses' = businesses]_vars

C8_Witness ==
  /\ pc = "resume"
  /\ biz_log.handled
  /\ business # NoBusiness
  /\ business.website_url = None
  /\ biz_log.requests = 0
  /\ all_records # <<>>

\* C9: in fixture mode an entry whose business data or whose HTML is missing
\* is skipped and never aborts the run.
C9_IncompleteEntryNeverAborts ==
  (settings.is_demo /\ (DOMAIN entry.business = {} \/ entry.html = NoneHtml)) =>
    raised = None

\* C10: a second enrich_with_socials with the same extraction leaves every
\* field of the business as the first left it.
C10_EnrichIdempotent == [][enrich_count = 1 => business' = business]_vars

C10_Witness ==
  /\ enrich_count = 2
  /\ extraction.social_links["facebook_url"] = <<"https://facebook.com/cafe", "cafe">>
  /\ extraction.social_links["yelp_url"] = <<>>
  /\ business.facebook_url = "https://facebook.com/cafe"
  /\ business.yelp_url = "old"
  /\ business.social_medias_raw = <<"cafe", "https://facebook.com/cafe">>

\* The email matches of a page's text, as written in the page.
PageMatches == Range(EmailMatches(Flatten(Flatten(entry.html.elements))))

\* C11: the emails parse_contact_page returns are lower-cased, pairwise
\* distinct (occurrences that repeat or differ only in letter case give one
\* entry) and in strictly increasing order.
C11_EmailsNormalizedSorted ==
  pc = "parsed" =>
    LET emails == extraction.emails
    IN /\ \A i \in 1..Len(emails) : emails[i] = Lower(emails[i])
       /\ \A i, j \in 1..Len(emails) :
            i < j => emails[i] # emails[j] /\ StrRank(emails[i]) < StrRank(emails[j])
       /\ Range(emails) = {Lower(m) : m \in PageMatches}

C11_Witness ==
  /\ pc = "parsed"
  /\ entry.html.elements = << << <<"b@x.com", "A@X.com">>, <<"a@x.com">> >> >>
  /\ extraction.emails = <<"a@x.com", "b@x.com">>

\* C12: the keys of email_to_name are exactly the extracted emails: a name
\* inferred from a text node is stored under the email matched in the node,
\* also when the node holds other text besides the email.
C12_NameKeysAreEmails ==
  pc = "parsed" =>
    DOMAIN extraction.email_to_name = {<<e>> : e \in Range(extraction.emails)}

\* The non-empty values of the two phone fields of the detail record, the
\* international one first.
NonEmptyPhones ==
  SelectSeq(<<last_api.result.international_phone_number,
              last_api.result.formatted_phone_number>>,
            LAMBDA v : v \notin {None, ""})

\* C13: build_business sets phone to the first non-empty value of
\* (international_phone_number, formatted_phone_number), to None when there
\* is none, and additional_phones to the later non-empty values in order;
\* an empty string is never phone nor a member of additional_phones.
C13_PhonesAreNonEmptyValues ==
  pc = "built" =>
    /\ business.phone = IF NonEmptyPhones = <<>> THEN None ELSE Head(NonEmptyPhones)
    /\ business.additional_phones =
         IF NonEmptyPhones = <<>> THEN <<>> ELSE Tail(NonEmptyPhones)
    /\ business.phone # ""
    /\ "" \notin Range(business.additional_phones)
=============================================================================
